---- MODULE Spec2Model ----
(***************************************************************************)
(* Model of upload_to_hf.py: one linear procedure that reads the           *)
(* configuration, resolves the account, asks git for the short revision,   *)
(* creates the dataset repository, walks results/ and uploads every file.  *)
(*                                                                         *)
(* Python strings are sequences of one-character strings, so that strip,   *)
(* substring search, path joining and f-string concatenation are computed  *)
(* and not assumed.  An optional value (None or a str) is a record         *)
(* [some, val].                                                            *)
(***************************************************************************)
EXTENDS Integers, Sequences, FiniteSets, TLC

VARIABLES
    env,              \* os.environ after load_dotenv(): HF_TOKEN, HF_USERNAME, HF_REPO_NAME
    git,              \* what subprocess.run(["git", ...]) does in this working tree
    fs,               \* the results path: its kind and the entries beneath it
    cwd,              \* the working directory, as path components
    pc,               \* position of the run inside upload_to_huggingface
    fail,             \* which statement raised, "" while none did
    hf_username,      \* local hf_username (optional str)
    repo_id,          \* local repo_id (str)
    commit_id,        \* local commit_id (optional str)
    commit_prefix,    \* local commit_prefix (str)
    files_to_upload,  \* local files_to_upload (sequence of str)
    idx,              \* position of the upload loop in files_to_upload
    whoamiCalls,      \* api.whoami calls made by this run
    createLog,        \* repo ids passed to create_repo by this run
    createResult,     \* what the create_repo call of this run did
    calls,            \* api.upload_file calls made by this run, in order
    remote,           \* paths stored in the remote repository (survives runs)
    run,              \* which invocation of the script this is
    prevDone,         \* the previous invocation ended without an error
    prevUploads       \* the (path, message) pairs the previous invocation uploaded

vars == <<env, git, fs, cwd, pc, fail, hf_username, repo_id, commit_id,
          commit_prefix, files_to_upload, idx, whoamiCalls, createLog,
          createResult, calls,
          remote, run, prevDone, prevUploads>>

\* Number of consecutive invocations of the script that are explored.
MaxRuns == 2

----------------------------------------------------------------------------
(* Optional values and Python truthiness *)

None == [some |-> FALSE, val |-> <<>>]
Some(s) == [some |-> TRUE, val |-> s]

\* "not x" for x an optional str: None and "" are falsy.
Falsy(o) == ~o.some \/ o.val = <<>>

----------------------------------------------------------------------------
(* String literals of the script *)

S_results == <<"r","e","s","u","l","t","s">>
S_default_repo ==
    <<"l","o","n","g","b","e","n","c","h","-","r","e","s","u","l","t","s">>
S_update == <<"u","p","d","a","t","e">>
S_update_from ==
    <<"U","p","d","a","t","e"," ","f","r","o","m"," ","g","i","t","h","u","b"," ",
      "(","c","o","m","m","i","t"," ","i","d",")"," ">>
S_dash == <<" ","-"," ">>
S_409 == <<"4","0","9">>
S_already ==
    <<"Y","o","u"," ","a","l","r","e","a","d","y"," ",
      "c","r","e","a","t","e","d"," ","t","h","i","s">>
S_dot == <<".">>
S_dotdot == <<".",".">>

----------------------------------------------------------------------------
(* str operations *)

\* The characters for which str.isspace() is true, which str.strip() removes.
\* A character that has no escape in a TLA+ string is written by its code
\* point ("U+000B" is the one character VT).
Whitespace ==
    { "\t", "\n", "U+000B", "\f", "\r", "U+001C", "U+001D", "U+001E", "U+001F",
      " ", "U+0085", "U+00A0", "U+1680", "U+2000", "U+2001", "U+2002", "U+2003",
      "U+2004", "U+2005", "U+2006", "U+2007", "U+2008", "U+2009", "U+200A",
      "U+2028", "U+2029", "U+202F", "U+205F", "U+3000" }

RECURSIVE LStrip(_)
LStrip(s) ==
    IF s # <<>> /\ Head(s) \in Whitespace THEN LStrip(Tail(s)) ELSE s

RECURSIVE RStrip(_)
RStrip(s) ==
    IF s # <<>> /\ s[Len(s)] \in Whitespace
    THEN RStrip(SubSeq(s, 1, Len(s) - 1))
    ELSE s

\* str.strip()
Strip(s) == RStrip(LStrip(s))

\* sub in s
Contains(s, sub) ==
    \E i \in 0..(Len(s) - Len(sub)) : SubSeq(s, i + 1, i + Len(sub)) = sub

\* s.startswith(p)
StartsWith(s, p) == Len(p) <= Len(s) /\ SubSeq(s, 1, Len(p)) = p

\* sep.join(parts)
RECURSIVE Join(_, _)
Join(parts, sep) ==
    IF parts = <<>> THEN <<>>
    ELSE IF Len(parts) = 1 THEN parts[1]
    ELSE parts[1] \o sep \o Join(Tail(parts), sep)

\* s.split("/")
RECURSIVE SplitSlash(_)
SplitSlash(s) ==
    IF \A i \in 1..Len(s) : s[i] # "/" THEN <<s>>
    ELSE LET i == CHOOSE k \in 1..Len(s) :
                    s[k] = "/" /\ \A j \in 1..(k - 1) : s[j] # "/"
         IN <<SubSeq(s, 1, i - 1)>> \o SplitSlash(SubSeq(s, i + 1, Len(s)))

----------------------------------------------------------------------------
(* Paths: os.path and pathlib as used by the script *)

RECURSIVE NormComps(_, _)
\* posixpath.normpath on the components of an absolute path: "" and "." are
\* dropped, ".." removes the component before it (and is dropped at the root).
NormComps(comps, acc) ==
    IF comps = <<>> THEN acc
    ELSE LET c == Head(comps) IN
         IF c = <<>> \/ c = S_dot THEN NormComps(Tail(comps), acc)
         ELSE IF c = S_dotdot
              THEN NormComps(Tail(comps),
                             IF acc = <<>> THEN acc
                             ELSE SubSeq(acc, 1, Len(acc) - 1))
              ELSE NormComps(Tail(comps), Append(acc, c))

\* os.path.abspath(p) for a relative p, as components below the root.
AbsComps(p) == NormComps(cwd \o SplitSlash(p), <<>>)

\* len(os.path.commonprefix([a, b])) on component lists.
CommonLen(a, b) ==
    LET m == IF Len(a) < Len(b) THEN Len(a) ELSE Len(b)
        agree == {k \in 0..m : \A j \in 1..k : a[j] = b[j]}
    IN CHOOSE k \in agree : \A l \in agree : l <= k

\* os.path.relpath(path, start)
os_path_relpath(path, start) ==
    LET start_list == AbsComps(start)
        path_list == AbsComps(path)
        i == CommonLen(start_list, path_list)
        rel_list == [k \in 1..(Len(start_list) - i) |-> S_dotdot]
                        \o SubSeq(path_list, i + 1, Len(path_list))
    IN IF rel_list = <<>> THEN S_dot ELSE Join(rel_list, <<"/">>)

\* relative_path = os.path.relpath(file_path, start=".")
relative_path(file_path) == os_path_relpath(file_path, S_dot)

\* str(results_dir / entry): the path of an entry as the glob yields it.
PathStr(comps) == Join(<<S_results>> \o comps, <<"/">>)

\* The entries directly inside directory dir (components below results/).
Children(tree, dir) ==
    {e \in tree : /\ Len(e.path) = Len(dir) + 1
                  /\ SubSeq(e.path, 1, Len(dir)) = dir}

\* A mutation of Glob that does not descend: glob("*").
GlobTopLevel(tree, dir) == Children(tree, dir)

RECURSIVE Glob(_, _)
\* results_dir.glob("**/*"): every entry of dir and of each directory below it.
Glob(tree, dir) ==
    LET here == Children(tree, dir)
        subdirs == {e \in here : e.kind = "dir"}
    IN here \union UNION {Glob(tree, d.path) : d \in subdirs}

\* A mutation of FilesFound: files already stored remotely are left out.
FilesFoundSkippingStored(f) ==
    {PathStr(e.path) : e \in {x \in Glob(f.tree, <<>>) : x.kind = "file"}}
        \ {p \in {PathStr(e.path) : e \in f.tree} : relative_path(p) \in remote}

\* The strings appended to files_to_upload: the globbed entries that are files.
FilesFound(f) ==
    {PathStr(e.path) : e \in {x \in Glob(f.tree, <<>>) : x.kind = "file"}}

\* A mutation of ResultsDirOk that forgets the is_dir() test.
ResultsDirExists(f) == f.kind # "missing"

\* results_dir.exists() and results_dir.is_dir()
ResultsDirOk(f) == f.kind # "missing" /\ f.kind = "dir"

\* The orders in which a set of paths can come out of the traversal.
Orders(S) ==
    {q \in [1..Cardinality(S) -> S] : \A x \in S : \E i \in DOMAIN q : q[i] = x}

----------------------------------------------------------------------------
(* The script's own expressions *)

\* os.getenv("HF_REPO_NAME", "longbench-results")
RepoName == IF env.HF_REPO_NAME.some THEN env.HF_REPO_NAME.val ELSE S_default_repo

\* f"{hf_username}/{repo_name}"
RepoId(user, name) == user \o <<"/">> \o name

\* The account part of a repository id: what precedes the first "/".
AccountOf(rid) == SplitSlash(rid)[1]

\* get_current_git_commit(): the stripped stdout, None for the two handled
\* exceptions, and any other exception of subprocess.run propagates.
get_current_git_commit(g) ==
    IF g.kind = "ok"
    THEN [raised |-> FALSE, value |-> Some(Strip(g.stdout))]
    ELSE IF g.kind \in {"CalledProcessError", "FileNotFoundError"}
         THEN [raised |-> FALSE, value |-> None]
         ELSE [raised |-> TRUE, value |-> None]

\* A mutation of CommitPrefix that does not test commit_id.
CommitPrefixUnconditional(cid) == S_update_from \o cid.val

\* f"Update from github (commit id) {commit_id}" if commit_id else "update"
CommitPrefix(cid) ==
    IF ~Falsy(cid) THEN S_update_from \o cid.val ELSE S_update

\* f"{commit_prefix} - {relative_path}"
FileCommitMessage(prefix, rel) == prefix \o S_dash \o rel

\* A mutation of ConflictTolerated that only looks for the status code.
ConflictToleratedCodeOnly(text) == Contains(text, S_409)

\* "You already created this" in str(e) or "409" in str(e)
ConflictTolerated(text) == Contains(text, S_already) \/ Contains(text, S_409)

\* A mutation of NeedsLookup: the account is always asked from the service.
NeedsLookupAlways(u) == TRUE

\* if not hf_username: (the environment's value)
NeedsLookup(u) == Falsy(u)

\* A mutation of NameMissing that accepts an empty name.
NameMissingNoneOnly(n) == ~n.some

\* if not hf_username: (the name whoami returned)
NameMissing(n) == Falsy(n)

\* A mutation of TokenMissing that accepts an empty token.
TokenMissingNoneOnly(t) == ~t.some

\* if not hf_token:
TokenMissing(t) == Falsy(t)

\* A mutation of AfterUpload: the loop goes on after a failed upload.
AfterUploadContinue(ok) == "upload"

\* Where the loop goes after api.upload_file returned (ok) or raised.
AfterUpload(ok) == IF ok THEN "upload" ELSE "failed"

----------------------------------------------------------------------------
(* The inputs a run is explored on *)

N_a_txt == <<"a",".","t","x","t">>
N_sub == <<"s","u","b">>
N_b_txt == <<"b",".","t","x","t">>
N_c_txt == <<"c",".","t","x","t">>

\* The entries results/ may hold: a.txt, sub/, sub/b.txt, sub/c.txt.
Entries ==
    { [path |-> <<N_a_txt>>, kind |-> "file"],
      [path |-> <<N_sub>>, kind |-> "dir"],
      [path |-> <<N_sub, N_b_txt>>, kind |-> "file"],
      [path |-> <<N_sub, N_c_txt>>, kind |-> "file"] }

\* A tree holds an entry of sub/ only together with sub/ itself.
Trees ==
    {T \in SUBSET Entries :
        \A e \in T : Len(e.path) = 2 =>
            [path |-> <<N_sub>>, kind |-> "dir"] \in T}

\* results is missing, is a regular file, or is a directory holding a tree.
FsChoices ==
    { [kind |-> "missing", tree |-> {}], [kind |-> "file", tree |-> {}] }
        \union {[kind |-> "dir", tree |-> T] : T \in Trees}

TokenChoices == {None, Some(<<>>), Some(<<"h","f","_","t">>)}
UserChoices == {None, Some(<<>>), Some(<<"a","l","i","c","e">>)}
RepoChoices == {None, Some(<<"r","e","s">>)}
CwdChoices == {<<>>, <<<<"w","o","r","k">>>>}

\* subprocess.run: a zero exit with its stdout, or one of its exceptions.
GitChoices ==
    { [kind |-> "ok", stdout |-> <<"a","1","b","2","\n">>],
      [kind |-> "ok", stdout |-> <<"\n">>],
      [kind |-> "ok", stdout |-> <<"\f","a","1","b","2","\f","\n">>],
      [kind |-> "ok", stdout |-> <<"U+00A0","\f","\n">>],
      [kind |-> "CalledProcessError", stdout |-> <<>>],
      [kind |-> "FileNotFoundError", stdout |-> <<>>],
      [kind |-> "PermissionError", stdout |-> <<>>] }

\* api.whoami: raises, or returns a dict whose "name" is absent, "" or a name.
WhoamiOutcomes ==
    { [raised |-> TRUE, name |-> None],
      [raised |-> FALSE, name |-> None],
      [raised |-> FALSE, name |-> Some(<<>>)],
      [raised |-> FALSE, name |-> Some(<<"b","o","b">>)] }

E_conflict == <<"4","0","9"," ","C","o","n","f","l","i","c","t">>
E_already == S_already \o <<" ","r","e","p","o">>
E_unauthorized == <<"4","0","1"," ","U","n","a","u","t","h","o","r","i","z","e","d">>
E_near == <<"4","0"," ","9"," ","Y","o","u"," ","a","l","r","e","a","d","y">>

\* create_repo: returns, or raises an exception whose str() is text.
CreateOutcomes ==
    { [raised |-> FALSE, text |-> <<>>] }
        \union {[raised |-> TRUE, text |-> t] :
                    t \in {E_conflict, E_already, E_unauthorized, E_near, <<>>}}

NotCalled == [raised |-> FALSE, text |-> <<>>]

----------------------------------------------------------------------------
(* The run *)

Init ==
    /\ env \in [HF_TOKEN : TokenChoices, HF_USERNAME : UserChoices,
                HF_REPO_NAME : RepoChoices]
    /\ git \in GitChoices
    /\ fs \in FsChoices
    /\ cwd \in CwdChoices
    /\ pc = "start"
    /\ fail = ""
    /\ hf_username = None
    /\ repo_id = <<>>
    /\ commit_id = None
    /\ commit_prefix = <<>>
    /\ files_to_upload = <<>>
    /\ idx = 1
    /\ whoamiCalls = 0
    /\ createLog = <<>>
    /\ createResult = NotCalled
    /\ calls = <<>>
    /\ remote = {}
    /\ run = 1
    /\ prevDone = FALSE
    /\ prevUploads = {}

\* hf_token = os.getenv("HF_TOKEN"); raise ValueError if it is falsy.
ReadToken ==
    /\ pc = "start"
    /\ IF TokenMissing(env.HF_TOKEN)
       THEN pc' = "failed" /\ fail' = "HF_TOKEN"
       ELSE pc' = "identity" /\ fail' = fail
    /\ UNCHANGED <<env, git, fs, cwd, hf_username, repo_id, commit_id,
                   commit_prefix, files_to_upload, idx, whoamiCalls, createLog,
                   createResult, calls, remote, run, prevDone, prevUploads>>

\* hf_username from the environment, else from api.whoami; ValueError when
\* the lookup raises or gives no name.
ResolveIdentity ==
    /\ pc = "identity"
    /\ IF ~NeedsLookup(env.HF_USERNAME)
       THEN /\ hf_username' = env.HF_USERNAME
            /\ pc' = "revision"
            /\ UNCHANGED <<fail, whoamiCalls>>
       ELSE \E w \in WhoamiOutcomes :
            /\ whoamiCalls' = whoamiCalls + 1
            /\ hf_username' = IF w.raised THEN env.HF_USERNAME ELSE w.name
            /\ IF w.raised \/ NameMissing(w.name)
               THEN pc' = "failed" /\ fail' = "whoami"
               ELSE pc' = "revision" /\ fail' = fail
    /\ UNCHANGED <<env, git, fs, cwd, repo_id, commit_id, commit_prefix,
                   files_to_upload, idx, createLog, createResult, calls, remote,
                   run, prevDone, prevUploads>>

\* repo_name, repo_id, commit_id = get_current_git_commit(), commit_prefix.
ResolveRevision ==
    /\ pc = "revision"
    /\ repo_id' = RepoId(hf_username.val, RepoName)
    /\ LET r == get_current_git_commit(git) IN
       IF r.raised
       THEN /\ pc' = "failed"
            /\ fail' = "git"
            /\ UNCHANGED <<commit_id, commit_prefix>>
       ELSE /\ commit_id' = r.value
            /\ commit_prefix' = CommitPrefix(r.value)
            /\ pc' = "create"
            /\ fail' = fail
    /\ UNCHANGED <<env, git, fs, cwd, hf_username, files_to_upload, idx,
                   whoamiCalls, createLog, createResult, calls, remote, run,
                   prevDone, prevUploads>>

\* create_repo(repo_id, ...); an exception is swallowed when its text tells
\* that the repository exists, and re-raised otherwise.
CreateRepo ==
    /\ pc = "create"
    /\ \E o \in CreateOutcomes :
        /\ createLog' = Append(createLog, repo_id)
        /\ createResult' = o
        /\ IF o.raised /\ ~ConflictTolerated(o.text)
           THEN pc' = "failed" /\ fail' = "create_repo"
           ELSE pc' = "enumerate" /\ fail' = fail
    /\ UNCHANGED <<env, git, fs, cwd, hf_username, repo_id, commit_id,
                   commit_prefix, files_to_upload, idx, whoamiCalls, calls,
                   remote, run, prevDone, prevUploads>>

\* The results directory test, then the glob that fills files_to_upload.
Enumerate ==
    /\ pc = "enumerate"
    /\ IF ~ResultsDirOk(fs)
       THEN /\ pc' = "failed"
            /\ fail' = "results_dir"
            /\ UNCHANGED <<files_to_upload, idx>>
       ELSE \E q \in Orders(FilesFound(fs)) :
            /\ files_to_upload' = q
            /\ idx' = 1
            /\ pc' = "upload"
            /\ fail' = fail
    /\ UNCHANGED <<env, git, fs, cwd, hf_username, repo_id, commit_id,
                   commit_prefix, whoamiCalls, createLog, createResult, calls,
                   remote, run, prevDone, prevUploads>>

\* One iteration of the upload loop: api.upload_file returns or raises.
UploadFile ==
    /\ pc = "upload"
    /\ idx <= Len(files_to_upload)
    /\ LET file_path == files_to_upload[idx]
           rel == relative_path(file_path)
           file_commit_message == FileCommitMessage(commit_prefix, rel)
       IN \E ok \in BOOLEAN :
            /\ calls' = Append(calls,
                    [path_or_fileobj |-> file_path, path_in_repo |-> rel,
                     repo_id |-> repo_id,
                     commit_message |-> file_commit_message, ok |-> ok])
            /\ remote' = IF ok THEN remote \union {rel} ELSE remote
            /\ pc' = AfterUpload(ok)
            /\ fail' = IF AfterUpload(ok) = "failed" THEN "upload_file" ELSE fail
            /\ idx' = IF AfterUpload(ok) = "upload" THEN idx + 1 ELSE idx
    /\ UNCHANGED <<env, git, fs, cwd, hf_username, repo_id, commit_id,
                   commit_prefix, files_to_upload, whoamiCalls, createLog,
                   createResult, run, prevDone, prevUploads>>

\* The loop is exhausted: the closing messages are printed and the run ends.
Finish ==
    /\ pc = "upload"
    /\ idx > Len(files_to_upload)
    /\ pc' = "done"
    /\ UNCHANGED <<env, git, fs, cwd, fail, hf_username, repo_id, commit_id,
                   commit_prefix, files_to_upload, idx, whoamiCalls, createLog,
                   createResult, calls, remote, run, prevDone, prevUploads>>

\* The script is started again: nothing of the last run is kept by the
\* script; the environment, the working tree and the remote are as they were.
NextRun ==
    /\ pc \in {"done", "failed"}
    /\ run < MaxRuns
    /\ run' = run + 1
    /\ prevDone' = (pc = "done")
    /\ prevUploads' = IF pc = "done"
                      THEN {<<c.path_in_repo, c.commit_message>> :
                                c \in {calls[i] : i \in DOMAIN calls}}
                      ELSE {}
    /\ pc' = "start"
    /\ fail' = ""
    /\ hf_username' = None
    /\ repo_id' = <<>>
    /\ commit_id' = None
    /\ commit_prefix' = <<>>
    /\ files_to_upload' = <<>>
    /\ idx' = 1
    /\ whoamiCalls' = 0
    /\ createLog' = <<>>
    /\ createResult' = NotCalled
    /\ calls' = <<>>
    /\ UNCHANGED <<env, git, fs, cwd, remote>>

Next ==
    \/ ReadToken
    \/ ResolveIdentity
    \/ ResolveRevision
    \/ CreateRepo
    \/ Enumerate
    \/ UploadFile
    \/ Finish
    \/ NextRun

Spec == Init /\ [][Next]_vars

----------------------------------------------------------------------------
(* What the properties speak about *)

CallSet == {calls[i] : i \in DOMAIN calls}

\* Every repository id this run has passed to the service.
RepoIdsUsed == {createLog[i] : i \in DOMAIN createLog} \union {c.repo_id : c \in CallSet}

\* The regular files beneath results/, whatever their depth.
RegularFiles == {e \in fs.tree : e.kind = "file"}

\* The path of such a file relative to the working directory: results/<...>.
PathFromCwd(e) == S_results \o <<"/">> \o Join(e.path, <<"/">>)

\* The digits of an abbreviated object name.
HexDigits ==
    {"0","1","2","3","4","5","6","7","8","9","a","b","c","d","e","f"}

\* The revision git printed: the hexadecimal digits of its output.
PrintedRevision == SelectSeq(git.stdout, LAMBDA ch : ch \in HexDigits)

\* The prefix every commit message of the run has to carry.
ExpectedPrefix ==
    IF git.kind = "ok" /\ PrintedRevision # <<>>
    THEN S_update_from \o PrintedRevision
    ELSE S_update

\* The text of a create_repo error tells that the repository exists.
SaysConflict(text) == Contains(text, S_409) \/ Contains(text, S_already)

----------------------------------------------------------------------------
(* Properties *)

\* C1: with HF_TOKEN unset or empty the run aborts at the credential check:
\* it never gets past it, and no whoami, create_repo or upload_file call is
\* made in that run.
C1_NoCallWithoutToken ==
    (~env.HF_TOKEN.some \/ env.HF_TOKEN.val = <<>>) =>
        /\ pc \in {"start", "failed"}
        /\ pc = "failed" => fail = "HF_TOKEN"
        /\ whoamiCalls = 0
        /\ createLog = <<>>
        /\ calls = <<>>

C1_Witness ==
    /\ env.HF_TOKEN = Some(<<>>)
    /\ env.HF_USERNAME.some
    /\ pc = "failed"
    /\ fail = "HF_TOKEN"

\* C2: a run that completes has uploaded exactly the regular files beneath
\* results/, each once and successfully, at its path relative to the working
\* directory (results/a.txt, results/sub/b.txt); nothing else is uploaded,
\* and with no file beneath results/ there is no upload call.
C2_UploadSetIsFileSet ==
    pc = "done" =>
        /\ {c.path_in_repo : c \in CallSet} = {PathFromCwd(e) : e \in RegularFiles}
        /\ Len(calls) = Cardinality(RegularFiles)
        /\ \A c \in CallSet : c.ok
        /\ RegularFiles = {} => calls = <<>>

C2_Witness ==
    /\ pc = "done"
    /\ {e.path : e \in RegularFiles} = {<<N_a_txt>>, <<N_sub, N_b_txt>>}
    /\ Len(calls) = 2

\* C3: a create_repo error whose text has "409" or "You already created this"
\* does not abort the run, which goes on to the directory test and the upload
\* loop as after a creation; any other create_repo error ends the run there,
\* with no upload call.
C3_ConflictTolerated ==
    (Len(createLog) = 1 /\ createResult.raised) =>
        IF SaysConflict(createResult.text)
        THEN /\ fail # "create_repo"
             /\ pc \in {"enumerate", "upload", "done", "failed"}
             /\ fs.kind = "dir" => (pc # "failed" \/ fail = "upload_file")
        ELSE /\ pc = "failed"
             /\ fail = "create_repo"
             /\ calls = <<>>

C3_Witness ==
    /\ createResult.raised
    /\ createResult.text = E_already
    /\ pc = "done"
    /\ Len(calls) >= 1

\* C4: whenever the revision lookup fails (git missing, git exiting with an
\* error, or any other failure of the invocation) get_current_git_commit
\* returns None without raising, and every upload of the run carries the
\* prefix "update".
C4_RevisionFailureNeverRaises ==
    git.kind # "ok" =>
        /\ fail # "git"
        /\ pc \in {"create", "enumerate", "upload", "done"} =>
                (commit_id = None /\ commit_prefix = S_update)
        /\ \A c \in CallSet : StartsWith(c.commit_message, S_update \o S_dash)

\* C5: a failed upload is the last upload call of the run: the run has ended
\* with that error, the files before it in traversal order were each uploaded
\* once, successfully, and are stored remotely, the failing file was tried
\* once, and no file after it was tried.
C5_FailureStopsLoop ==
    /\ \A i \in DOMAIN calls :
          ~calls[i].ok => (i = Len(calls) /\ pc = "failed" /\ fail = "upload_file")
    /\ fail = "upload_file" =>
          /\ Len(calls) >= 1
          /\ ~calls[Len(calls)].ok
    /\ Len(calls) <= Len(files_to_upload)
    /\ \A i \in DOMAIN calls :
          /\ calls[i].path_or_fileobj = files_to_upload[i]
          /\ calls[i].ok => calls[i].path_in_repo \in remote
    /\ \A i, j \in DOMAIN files_to_upload :
          files_to_upload[i] = files_to_upload[j] => i = j

C5_Witness ==
    /\ pc = "failed"
    /\ fail = "upload_file"
    /\ Len(files_to_upload) = 3
    /\ Len(calls) = 2
    /\ calls[1].ok
    /\ ~calls[2].ok

\* C6: when HF_USERNAME is supplied (set and not empty) no whoami call is
\* made in the run, whatever the later steps do; otherwise at most one is.
C6_NoLookupWhenSupplied ==
    /\ (env.HF_USERNAME.some /\ env.HF_USERNAME.val # <<>>) => whoamiCalls = 0
    /\ whoamiCalls <= 1

C6_Witness ==
    /\ env.HF_USERNAME.some
    /\ env.HF_USERNAME.val # <<>>
    /\ pc = "failed"
    /\ fail = "upload_file"
    /\ Len(createLog) = 1

\* C7: when the account is not configured and whoami raises or gives no
\* name, the run ends there: no create_repo and no upload_file call is made;
\* and no repository id passed to the service has an empty account part.
C7_NoAccountNoProvisioning ==
    /\ (whoamiCalls = 1 /\ (~hf_username.some \/ hf_username.val = <<>>)) =>
          /\ pc = "failed"
          /\ fail = "whoami"
          /\ createLog = <<>>
          /\ calls = <<>>
    /\ \A rid \in RepoIdsUsed : AccountOf(rid) # <<>>

C7_Witness ==
    /\ whoamiCalls = 1
    /\ hf_username = Some(<<>>)
    /\ pc = "failed"
    /\ fail = "whoami"

\* C8: every upload of a run goes to the path of its file relative to the
\* working directory, its message is the run's prefix, " - " and that path,
\* the prefix being "Update from github (commit id) <id>" when git printed a
\* revision and "update" otherwise, and every upload names the same
\* <account>/<name> repository, the one that was created.
C8_PathAndMessage ==
    \A c \in CallSet :
        /\ c.path_in_repo \in {PathFromCwd(e) : e \in RegularFiles}
        /\ c.path_in_repo = c.path_or_fileobj
        /\ c.commit_message = ExpectedPrefix \o <<" ", "-", " ">> \o c.path_in_repo
        /\ c.repo_id = createLog[1]
        /\ c.repo_id = hf_username.val \o <<"/">> \o
                (IF env.HF_REPO_NAME.some THEN env.HF_REPO_NAME.val
                 ELSE S_default_repo)

C8_Witness ==
    /\ pc = "done"
    /\ Len(calls) = 3
    /\ git.kind = "ok"
    /\ PrintedRevision # <<>>
    /\ Head(git.stdout) = "\f"
    /\ cwd # <<>>

\* C9: a run that follows a successful run, with the same environment, the
\* same results/ and the same revision, does not fail for a local reason, is
\* not aborted by a create_repo conflict, and when it completes it has issued
\* an upload for every file again, with the paths and messages of the first
\* run, although all of them are stored remotely already.
C9_SecondRunUploadsAgain ==
    (run >= 2 /\ prevDone) =>
        /\ fail \notin {"HF_TOKEN", "git", "results_dir"}
        /\ (createResult.raised /\ SaysConflict(createResult.text)) =>
                fail # "create_repo"
        /\ {p[1] : p \in prevUploads} \subseteq remote
        /\ pc = "done" =>
              /\ {<<c.path_in_repo, c.commit_message>> : c \in CallSet} = prevUploads
              /\ Len(calls) = Cardinality(prevUploads)

C9_Witness ==
    /\ run = 2
    /\ prevDone
    /\ pc = "done"
    /\ Len(calls) = 3
    /\ createResult.raised
    /\ createResult.text = E_conflict

\* C10: with results missing or not a directory a run never completes and
\* makes no upload call; the test that ends it comes after create_repo, so
\* the run that fails on it has made exactly one create_repo call.
C10_DirCheckAfterCreate ==
    /\ (fs.kind # "dir" /\ pc \in {"done", "failed"}) =>
          (pc = "failed" /\ calls = <<>>)
    /\ fail = "results_dir" =>
          /\ fs.kind # "dir"
          /\ pc = "failed"
          /\ Len(createLog) = 1
          /\ calls = <<>>
    /\ (fs.kind # "dir" /\ pc \in {"upload", "done"}) => FALSE

C10_Witness ==
    /\ fail = "results_dir"
    /\ fs.kind = "file"
    /\ Len(createLog) = 1
    /\ ~createResult.raised

====
